---- MODULE Spec2Model ----
(***************************************************************************)
(* Model of the training orchestrator of d2-net (src/train.py): the epoch  *)
(* function process_epoch and the outer loop that drives it, with its      *)
(* loss histories, its log file and its checkpoint files.                  *)
(*                                                                         *)
(* External collaborators are inputs of the model:                         *)
(*   - loss_function(model, batch, device) either raises NoGradientError   *)
(*     (outcome NoGradient) or returns a scalar loss (a positive integer   *)
(*     1..MaxLoss);                                                        *)
(*   - len(dataloader) is train_batches / val_batches of the run's         *)
(*     configuration;                                                      *)
(*   - model parameters and optimizer state are identified with the number *)
(*     of optimizer steps applied so far.                                  *)
(* Averages are exact rationals <<numerator, denominator>> in lowest terms;*)
(* numpy's mean of an empty list, nan, is NaN == <<0, 0>>, and a           *)
(* comparison with nan is false as in Python.                              *)
(* args.log_interval is taken >= 1 (0 makes line 189 raise).               *)
(***************************************************************************)
EXTENDS Integers, Sequences, FiniteSets, TLC

\* ------------------------------------------------------------------ bounds
MaxEpochs == 2
MaxBatches == 3
MaxLoss == 2
MaxLogInterval == 2
MaxWork == 5
LongRun == 100

\* ------------------------------------------------------- program constants
CheckpointPrefix == "d2"
NoGradient == 0

VARIABLES
    cfg,                      \* args and the dataloaders' lengths
    pc,                       \* position of the script
    caller,                   \* which call of process_epoch is running
    epoch_idx,                \* epoch_idx of the loop / of process_epoch
    train,                    \* process_epoch's train parameter
    batch_idx,                \* next index enumerate(dataloader) yields
    epoch_losses,             \* process_epoch's epoch_losses
    avg_loss,                 \* value process_epoch returned
    grad_enabled,             \* torch's global gradient mode
    zero_grad_calls,          \* calls of optimizer.zero_grad()
    backward_calls,           \* calls of loss.backward()
    optimizer_steps,          \* calls of optimizer.step()
    log_file,                 \* lines of args.log_file
    train_loss_history,
    validation_loss_history,
    min_validation_loss,
    scheduler_steps,          \* metrics given to scheduler.step
    files,                    \* wandb.run.dir: records [name, content]
    outcomes,                 \* what loss_function did for each batch of the pass
    pass_start,               \* counters and log length when the pass began
    log_start,                \* length of the log file when it was opened
    calls                     \* the operations of the outer loop, in order

vars == <<cfg, pc, caller, epoch_idx, train, batch_idx, epoch_losses, avg_loss,
          grad_enabled, zero_grad_calls, backward_calls, optimizer_steps,
          log_file, train_loss_history, validation_loss_history,
          min_validation_loss, scheduler_steps, files, outcomes, pass_start,
          log_start, calls>>

\* --------------------------------------------------------------- averages
NaN == <<0, 0>>

RECURSIVE GCD(_, _)
GCD(a, b) == IF b = 0 THEN a ELSE GCD(b, a % b)

Rational(n, d) == <<n \div GCD(n, d), d \div GCD(n, d)>>

RECURSIVE SumSeq(_)
SumSeq(s) == IF s = <<>> THEN 0 ELSE s[1] + SumSeq(Tail(s))

MeanOfNone == <<0, 1>>
MeanAsSum(losses) == IF losses = <<>> THEN NaN ELSE <<SumSeq(losses), 1>>
MeanZeroWhenEmpty(losses) ==
    IF losses = <<>> THEN MeanOfNone ELSE Rational(SumSeq(losses), Len(losses))
\* np.mean(epoch_losses)
Mean(losses) ==
    IF losses = <<>> THEN NaN ELSE Rational(SumSeq(losses), Len(losses))

\* a < b on floats: false when either side is nan
Less(a, b) == a[2] # 0 /\ b[2] # 0 /\ a[1] * b[2] < b[1] * a[2]

\* '%f' % avg: six decimals, as a count of millionths; -1 stands for 'nan'
FormatF(a) ==
    IF a[2] = 0 THEN -1
    ELSE (2 * a[1] * 1000000 + a[2]) \div (2 * a[2])

\* ------------------------------------------------------------ file names
RECURSIVE Decimal(_)
Decimal(n) == IF n < 10 THEN <<n>> ELSE Append(Decimal(n \div 10), n % 10)

\* '%02d' % n
Format02d(n) == IF n < 10 THEN <<0>> \o Decimal(n) ELSE Decimal(n)

SameNameEveryEpoch(prefix, e) == <<prefix, <<0, 0>>, "pth">>
\* '%s.%02d.pth' % (args.checkpoint_prefix, epoch_idx)
CheckpointName(prefix, e) == <<prefix, Format02d(e), "pth">>

\* '%s.best.pth' % args.checkpoint_prefix
BestName(prefix) == <<prefix, <<>>, "best.pth">>

\* ---------------------------------------------------------- configuration
Work(c) ==
    c.num_epochs * c.train_batches
    + (IF c.use_validation THEN (c.num_epochs + 1) * c.val_batches ELSE 0)

Configs ==
    { c \in [ num_epochs : (0..MaxEpochs) \cup {LongRun},
              use_validation : BOOLEAN,
              log_interval : 1..MaxLogInterval,
              train_batches : 0..MaxBatches,
              val_batches : 0..MaxBatches ] :
        /\ Work(c) <= MaxWork
        /\ (~c.use_validation => c.val_batches = 0) }

ModeName(t) == IF t THEN "train" ELSE "valid"

TickLine(t, e, b, total, avg) ==
    [kind |-> "tick", mode |-> ModeName(t), epoch |-> e, batch |-> b,
     total |-> total, avg |-> FormatF(avg)]

SummaryLine(t, e, avg) ==
    [kind |-> "summary", mode |-> ModeName(t), epoch |-> e, batch |-> 0,
     total |-> 0, avg |-> FormatF(avg)]

\* what a log file left by an earlier run may hold when this run opens it
ExistingLogs == { <<>>, <<SummaryLine(TRUE, 1, <<1, 1>>)>> }

DataloaderLen == IF train THEN cfg.train_batches ELSE cfg.val_batches

Init ==
    /\ cfg \in Configs
    /\ pc = "start"
    /\ caller = "none"
    /\ epoch_idx = 0
    /\ train = TRUE
    /\ batch_idx = 0
    /\ epoch_losses = <<>>
    /\ avg_loss = NaN
    /\ grad_enabled = TRUE
    /\ zero_grad_calls = 0
    /\ backward_calls = 0
    /\ optimizer_steps = 0
    /\ log_file \in ExistingLogs
    /\ train_loss_history = <<>>
    /\ validation_loss_history = <<>>
    /\ min_validation_loss = NaN
    /\ scheduler_steps = <<>>
    /\ files = {}
    /\ outcomes = <<>>
    /\ pass_start = [log |-> 0, zero_grad |-> 0, backward |-> 0, steps |-> 0]
    /\ log_start = Len(log_file)
    /\ calls = <<>>


\* ------------------------------------------------------------ process_epoch
GradAlwaysOn(t) == TRUE
\* torch.set_grad_enabled(train)
GradMode(t) == t

NeverSkipped(outcome) == FALSE
\* except NoGradientError: continue
Skipped(outcome) == outcome = NoGradient

LogTickOffByOne(b, n) == (b + 1) % n = 0
\* if batch_idx % args.log_interval == 0
LogTick(b, n) == b % n = 0

\* the call process_epoch(e, ..., train=t): lines 162-167
EnterEpoch(e, t, who) ==
    /\ caller' = who
    /\ epoch_idx' = e
    /\ train' = t
    /\ epoch_losses' = <<>>
    /\ grad_enabled' = GradMode(t)
    /\ batch_idx' = 0
    /\ outcomes' = <<>>
    /\ pass_start' = [log |-> Len(log_file), zero_grad |-> zero_grad_calls,
                      backward |-> backward_calls, steps |-> optimizer_steps]
    /\ pc' = "batch"

\* one iteration of the batch loop: lines 168-199
Batch(outcome) ==
    /\ pc = "batch"
    /\ batch_idx < DataloaderLen
    /\ zero_grad_calls' = IF train THEN zero_grad_calls + 1 ELSE zero_grad_calls
    /\ outcomes' = Append(outcomes, outcome)
    /\ batch_idx' = batch_idx + 1
    /\ IF Skipped(outcome)
       THEN UNCHANGED <<epoch_losses, log_file, backward_calls, optimizer_steps>>
       ELSE /\ epoch_losses' = Append(epoch_losses, outcome)
            /\ log_file' =
                 IF LogTick(batch_idx, cfg.log_interval)
                 THEN Append(log_file,
                             TickLine(train, epoch_idx, batch_idx, DataloaderLen,
                                      Mean(epoch_losses')))
                 ELSE log_file
            /\ backward_calls' = IF train THEN backward_calls + 1 ELSE backward_calls
            /\ optimizer_steps' = IF train THEN optimizer_steps + 1 ELSE optimizer_steps
    /\ UNCHANGED <<cfg, pc, caller, epoch_idx, train, avg_loss, grad_enabled,
                   train_loss_history, validation_loss_history,
                   min_validation_loss, scheduler_steps, files, pass_start,
                   log_start, calls>>

\* the end of process_epoch: lines 200-211
EndEpoch ==
    /\ pc = "batch"
    /\ batch_idx = DataloaderLen
    /\ avg_loss' = Mean(epoch_losses)
    /\ log_file' = Append(log_file, SummaryLine(train, epoch_idx, avg_loss'))
    /\ pc' = "return"
    /\ UNCHANGED <<cfg, caller, epoch_idx, train, batch_idx, epoch_losses,
                   grad_enabled, zero_grad_calls, backward_calls,
                   optimizer_steps, train_loss_history,
                   validation_loss_history, min_validation_loss,
                   scheduler_steps, files, outcomes, pass_start, log_start,
                   calls>>

\* ---------------------------------------------------------------- outer loop
Event(op, e, v) == [op |-> op, epoch |-> e, value |-> v]

\* lines 221-228: the validation pass of epoch 0 begins
BaselineValidation ==
    /\ pc = "start"
    /\ cfg.use_validation
    /\ EnterEpoch(0, FALSE, "baseline")
    /\ calls' = Append(calls, Event("build_validation", 0, NaN))
    /\ UNCHANGED <<cfg, avg_loss, zero_grad_calls, backward_calls,
                   optimizer_steps, log_file, train_loss_history,
                   validation_loss_history, min_validation_loss,
                   scheduler_steps, files, log_start>>

\* line 221 when validation is off
NoBaseline ==
    /\ pc = "start"
    /\ ~cfg.use_validation
    /\ pc' = "loop"
    /\ UNCHANGED <<cfg, caller, epoch_idx, train, batch_idx, epoch_losses,
                   avg_loss, grad_enabled, zero_grad_calls, backward_calls,
                   optimizer_steps, log_file, train_loss_history,
                   validation_loss_history, min_validation_loss,
                   scheduler_steps, files, outcomes, pass_start, log_start,
                   calls>>

\* line 223: min_validation_loss = process_epoch(0, ...)
ReturnBaseline ==
    /\ pc = "return"
    /\ caller = "baseline"
    /\ min_validation_loss' = avg_loss
    /\ calls' = Append(calls, Event("validate", 0, avg_loss))
    /\ pc' = "loop"
    /\ UNCHANGED <<cfg, caller, epoch_idx, train, batch_idx, epoch_losses,
                   avg_loss, grad_enabled, zero_grad_calls, backward_calls,
                   optimizer_steps, log_file, train_loss_history,
                   validation_loss_history, scheduler_steps, files, outcomes,
                   pass_start, log_start>>

\* lines 231-240: the next epoch begins
StartEpoch ==
    /\ pc = "loop"
    /\ epoch_idx < cfg.num_epochs
    /\ EnterEpoch(epoch_idx + 1, TRUE, "train")
    /\ calls' = Append(calls, Event("build_training", epoch_idx + 1, NaN))
    /\ UNCHANGED <<cfg, avg_loss, zero_grad_calls, backward_calls,
                   optimizer_steps, log_file, train_loss_history,
                   validation_loss_history, min_validation_loss,
                   scheduler_steps, files, log_start>>

KeepLatest(history, v) == <<v>>
\* history.append(v)
AppendLoss(history, v) == Append(history, v)

NoValidation(use_validation) == "save"
\* if args.use_validation
AfterTraining(use_validation) == IF use_validation THEN "validate" ELSE "save"

\* line 234: train_loss_history.append(process_epoch(...))
ReturnTraining ==
    /\ pc = "return"
    /\ caller = "train"
    /\ train_loss_history' = AppendLoss(train_loss_history, avg_loss)
    /\ calls' = Append(calls, Event("train", epoch_idx, avg_loss))
    /\ pc' = AfterTraining(cfg.use_validation)
    /\ UNCHANGED <<cfg, caller, epoch_idx, train, batch_idx, epoch_losses,
                   avg_loss, grad_enabled, zero_grad_calls, backward_calls,
                   optimizer_steps, log_file, validation_loss_history,
                   min_validation_loss, scheduler_steps, files, outcomes,
                   pass_start, log_start>>

\* lines 243-250: the validation pass of the epoch begins
StartValidation ==
    /\ pc = "validate"
    /\ EnterEpoch(epoch_idx, FALSE, "valid")
    /\ UNCHANGED <<cfg, avg_loss, zero_grad_calls, backward_calls,
                   optimizer_steps, log_file, train_loss_history,
                   validation_loss_history, min_validation_loss,
                   scheduler_steps, files, log_start, calls>>

\* lines 243-252: validation_loss_history.append(...); scheduler.step(...)
ReturnValidation ==
    /\ pc = "return"
    /\ caller = "valid"
    /\ validation_loss_history' = AppendLoss(validation_loss_history, avg_loss)
    /\ scheduler_steps' =
         Append(scheduler_steps,
                validation_loss_history'[Len(validation_loss_history')])
    /\ calls' = calls \o <<Event("validate", epoch_idx, avg_loss),
                            Event("scheduler", epoch_idx, avg_loss)>>
    /\ pc' = "save"
    /\ UNCHANGED <<cfg, caller, epoch_idx, train, batch_idx, epoch_losses,
                   avg_loss, grad_enabled, zero_grad_calls, backward_calls,
                   optimizer_steps, log_file, train_loss_history,
                   min_validation_loss, files, outcomes, pass_start, log_start>>

\* a file written under a name replaces any file of that name
WriteFile(fs, name, content) ==
    { f \in fs : f.name # name } \cup { [name |-> name, content |-> content] }

Checkpoint ==
    [epoch_idx |-> epoch_idx,
     model |-> optimizer_steps,
     optimizer |-> optimizer_steps,
     train_loss_history |-> train_loss_history,
     validation_loss_history |-> validation_loss_history]

\* lines 255-267: torch.save(checkpoint, checkpoint_path)
SaveCheckpoint ==
    /\ pc = "save"
    /\ files' = WriteFile(files, CheckpointName(CheckpointPrefix, epoch_idx),
                          Checkpoint)
    /\ calls' = Append(calls, Event("save", epoch_idx, NaN))
    /\ pc' = "best"
    /\ UNCHANGED <<cfg, caller, epoch_idx, train, batch_idx, epoch_losses,
                   avg_loss, grad_enabled, zero_grad_calls, backward_calls,
                   optimizer_steps, log_file, train_loss_history,
                   validation_loss_history, min_validation_loss,
                   scheduler_steps, outcomes, pass_start, log_start>>

FileContent(fs, name) == (CHOOSE f \in fs : f.name = name).content

NotWorse(v, m) == ~Less(m, v)
\* validation_loss_history[-1] < min_validation_loss
Improves(v, m) == Less(v, m)

KeepMinimum(v, m) == m
\* min_validation_loss = validation_loss_history[-1]
NewMinimum(v, m) == v

\* lines 268-277: the copy to the best checkpoint, when validation improved
BestCheckpoint ==
    /\ pc = "best"
    /\ IF /\ cfg.use_validation
          /\ Improves(validation_loss_history[Len(validation_loss_history)],
                      min_validation_loss)
       THEN /\ min_validation_loss' =
                 NewMinimum(validation_loss_history[Len(validation_loss_history)],
                            min_validation_loss)
            /\ files' =
                 WriteFile(files, BestName(CheckpointPrefix),
                           FileContent(files,
                                       CheckpointName(CheckpointPrefix, epoch_idx)))
            /\ calls' = Append(calls, Event("copy_best", epoch_idx, NaN))
       ELSE UNCHANGED <<min_validation_loss, files, calls>>
    /\ pc' = "loop"
    /\ UNCHANGED <<cfg, caller, epoch_idx, train, batch_idx, epoch_losses,
                   avg_loss, grad_enabled, zero_grad_calls, backward_calls,
                   optimizer_steps, log_file, train_loss_history,
                   validation_loss_history, scheduler_steps, outcomes,
                   pass_start, log_start>>

\* lines 231, 280: the loop is exhausted and the log file is closed
Finish ==
    /\ pc = "loop"
    /\ epoch_idx >= cfg.num_epochs
    /\ pc' = "done"
    /\ UNCHANGED <<cfg, caller, epoch_idx, train, batch_idx, epoch_losses,
                   avg_loss, grad_enabled, zero_grad_calls, backward_calls,
                   optimizer_steps, log_file, train_loss_history,
                   validation_loss_history, min_validation_loss,
                   scheduler_steps, files, outcomes, pass_start, log_start,
                   calls>>

Next ==
    \/ BaselineValidation
    \/ NoBaseline
    \/ \E outcome \in 0..MaxLoss : Batch(outcome)
    \/ EndEpoch
    \/ ReturnBaseline
    \/ StartEpoch
    \/ ReturnTraining
    \/ StartValidation
    \/ ReturnValidation
    \/ SaveCheckpoint
    \/ BestCheckpoint
    \/ Finish

Spec == Init /\ [][Next]_vars

TypeOK ==
    /\ cfg \in Configs
    /\ pc \in {"start", "loop", "batch", "return", "validate", "save", "best", "done"}
    /\ epoch_idx \in 0..cfg.num_epochs

\* ------------------------------------------------- vocabulary of the claims
InPass == pc \in {"batch", "return"}

AtEpochBoundary == pc \in {"loop", "done"}

\* the epochs whose checkpoint has been written
SavedEpochs ==
    IF pc \in {"best", "loop", "done"} \/ epoch_idx = 0
    THEN epoch_idx ELSE epoch_idx - 1

EpochFiles == { f \in files : f.name[3] = "pth" }

BestFiles == { f \in files : f.name[3] = "best.pth" }

RECURSIVE DecimalValue(_)
DecimalValue(d) ==
    IF d = <<>> THEN 0
    ELSE 10 * DecimalValue(SubSeq(d, 1, Len(d) - 1)) + d[Len(d)]

\* the batches of the running pass for which loss_function returned a loss
Kept == SelectSeq(outcomes, LAMBDA x : x # 0)

RECURSIVE Total(_, _)
Total(s, n) == IF n = 0 THEN 0 ELSE Total(s, n - 1) + s[n]

\* v is the arithmetic mean of the numbers of the non-empty sequence s
IsMeanOf(v, s) == v[2] > 0 /\ v[1] * Len(s) = Total(s, Len(s)) * v[2]

AllSkipped == \A i \in 1..Len(outcomes) : outcomes[i] = 0

\* the value the caller stored from the pass that last returned
Recorded ==
    CASE pc = "return" -> avg_loss
      [] caller = "baseline" -> min_validation_loss
      [] caller = "train" -> train_loss_history[Len(train_loss_history)]
      [] OTHER -> validation_loss_history[Len(validation_loss_history)]

\* a pass has returned and no later pass has begun
PassReturned == caller # "none" /\ ~(pc \in {"batch", "start"})
    /\ ~(caller = "baseline" /\ pc # "loop" /\ pc # "return")

\* the validation loss of epoch 0
Baseline == calls[2].value

PassLog == SubSeq(log_file, pass_start.log + 1, Len(log_file))

Ticks == SelectSeq(PassLog, LAMBDA l : l.kind = "tick")

\* m millionths is sum / count to six decimals
IsSixDecimalsOf(m, sum, count) ==
    /\ 2 * (m * count - sum * 1000000) <= count
    /\ 2 * (sum * 1000000 - m * count) <= count

KeptUpTo(n) == SelectSeq(SubSeq(outcomes, 1, n), LAMBDA x : x # 0)

TicksWellFormed(batches) ==
    /\ { Ticks[j].batch : j \in 1..Len(Ticks) } = batches
    /\ \A j, k \in 1..Len(Ticks) : j < k => Ticks[j].batch < Ticks[k].batch
    /\ \A j \in 1..Len(Ticks) :
          /\ Ticks[j].mode = (IF train THEN "train" ELSE "valid")
          /\ Ticks[j].epoch = epoch_idx
          /\ Ticks[j].total = (IF train THEN cfg.train_batches ELSE cfg.val_batches)
          /\ LET kept == KeptUpTo(Ticks[j].batch + 1)
             IN  kept # <<>> =>
                   IsSixDecimalsOf(Ticks[j].avg, Total(kept, Len(kept)), Len(kept))

\* ------------------------------------------------------------------- C1
CheckpointsPerEpoch(twoDigits) ==
    /\ Cardinality(EpochFiles) = SavedEpochs
    /\ Cardinality({ f.name : f \in EpochFiles }) = SavedEpochs
    /\ \A e \in 1..SavedEpochs :
          \E f \in EpochFiles :
             /\ f.content.epoch_idx = e
             /\ f.name[1] = "d2"
             /\ f.name[2] \in Seq(0..9)
             /\ DecimalValue(f.name[2]) = e
             /\ Len(f.name[2]) >= 2
             /\ (Len(f.name[2]) > 2 => f.name[2][1] # 0)
             /\ (twoDigits => Len(f.name[2]) = 2)
    /\ ( /\ pc = "done"
         /\ cfg.num_epochs = 1
         /\ ~cfg.use_validation
         /\ cfg.train_batches = 1
         /\ ~AllSkipped )
       => /\ Cardinality(files) = 1
          /\ Len(SelectSeq(SubSeq(log_file, log_start + 1, Len(log_file)),
                           LAMBDA l : l.kind = "summary")) = 1

\* C1 as amended: once k epochs have completed exactly k epoch checkpoint
\* files exist, one per completed epoch, with pairwise distinct names
\* '<prefix>.<epoch>.pth' whose epoch is written in decimal, zero-padded to
\* at least two digits; and a run of one epoch without validation over one
\* batch that is not skipped writes exactly one checkpoint file and exactly
\* one per-epoch summary line to the log.
C1_OneCheckpointPerEpoch == CheckpointsPerEpoch(FALSE)

\* C1 as stated: the same, with every epoch written in exactly two digits.
C1_TwoDigitNames == CheckpointsPerEpoch(TRUE)

C1_Witness ==
    /\ pc = "done"
    /\ cfg.num_epochs >= 100
    /\ Cardinality(EpochFiles) = cfg.num_epochs
    /\ \E f \in EpochFiles : Len(f.name[2]) = 3

\* ------------------------------------------------------------------- C2
JustCopiedBest ==
    /\ AtEpochBoundary
    /\ calls # <<>>
    /\ calls[Len(calls)].op = "copy_best"

\* C2: whenever the epoch checkpoint has just been copied to the best
\* checkpoint, the copied epoch's validation loss is a defined number, no
\* entry of validation_loss_history is below it, it is strictly below the
\* validation loss of epoch 0, and the best file is that epoch's checkpoint.
C2_BestIsMinimumWhenCopied ==
    JustCopiedBest =>
        LET v == validation_loss_history[Len(validation_loss_history)]
        IN  /\ v[2] > 0
            /\ \A i \in 1..Len(validation_loss_history) :
                  LET w == validation_loss_history[i]
                  IN  w[2] > 0 => v[1] * w[2] <= w[1] * v[2]
            /\ Baseline[2] > 0
            /\ v[1] * Baseline[2] < Baseline[1] * v[2]
            /\ \A f \in BestFiles : f.content.epoch_idx = epoch_idx
            /\ BestFiles # {}

C2_Witness ==
    /\ JustCopiedBest
    /\ epoch_idx = 2
    /\ Baseline = <<2, 1>>
    /\ validation_loss_history = << <<2, 1>>, <<1, 1>> >>

\* ------------------------------------------------------------------- C3
\* the completed epochs whose validation loss is below that of epoch 0
Improving ==
    { i \in 1..Len(validation_loss_history) :
        Less(validation_loss_history[i], Baseline) }

\* the earliest epoch with the lowest validation loss among those in S
EarliestLowest(S) ==
    CHOOSE i \in S :
        \A j \in S :
            /\ ~Less(validation_loss_history[j], validation_loss_history[i])
            /\ (j < i => Less(validation_loss_history[i],
                              validation_loss_history[j]))

BestMirrors(e) ==
    /\ Cardinality(BestFiles) = 1
    /\ \A b \in BestFiles :
          /\ b.content.epoch_idx = e
          /\ \E f \in EpochFiles : f.content = b.content

\* C3 as amended: with validation enabled, after every completed epoch, if
\* some completed epoch's validation loss is strictly below the validation
\* loss of epoch 0 then the best checkpoint file exists and is a copy of the
\* checkpoint of the earliest epoch with the lowest validation loss among the
\* completed epochs, and otherwise no best checkpoint file exists.
C3_BestMirrorsLowestBelowBaseline ==
    (cfg.use_validation /\ AtEpochBoundary) =>
        IF Improving = {}
        THEN BestFiles = {}
        ELSE BestMirrors(EarliestLowest(Improving))

\* C3 as stated: with validation enabled, after every completed epoch the
\* best checkpoint file exists and is a copy of the checkpoint of an epoch
\* whose validation loss is the lowest among the completed epochs.
C3_BestAlwaysExists ==
    (cfg.use_validation /\ AtEpochBoundary /\ epoch_idx >= 1) =>
        \E e \in 1..epoch_idx :
            /\ \A j \in 1..epoch_idx :
                  ~Less(validation_loss_history[j], validation_loss_history[e])
            /\ BestMirrors(e)

C3_Witness ==
    /\ cfg.use_validation
    /\ pc = "done"
    /\ epoch_idx = 2
    /\ Improving = {1, 2}
    /\ EarliestLowest(Improving) = 1
    /\ BestFiles # {}

\* ------------------------------------------------------------------- C4
\* C4: when a pass of process_epoch with at least one non-skipped batch has
\* returned, the value it returned, and the value its caller stored from it
\* (the last entry of the loss history, or the baseline), is the arithmetic
\* mean of the losses of exactly the non-skipped batches of the pass.
C4_EpochLossIsMean ==
    (PassReturned /\ Kept # <<>>) => IsMeanOf(Recorded, Kept)

C4_Witness ==
    /\ pc = "save"
    /\ caller = "train"
    /\ outcomes = <<1, 0, 2>>
    /\ train_loss_history = <<<<3, 2>>>>

\* ------------------------------------------------------------------- C5
\* C5: in a pass of process_epoch the recorded losses are exactly the losses
\* of the non-skipped batches, in order; every batch, skipped or not, moves
\* the pass on to the next batch and the pass returns only after the last;
\* in train mode the backward passes and the optimizer steps of the pass
\* each number the non-skipped batches, and in validation mode there is none.
C5_SkippedBatchesLeaveNoTrace ==
    InPass =>
        /\ epoch_losses = Kept
        /\ batch_idx = Len(outcomes)
        /\ (pc = "return" =>
               Len(outcomes) = (IF train THEN cfg.train_batches ELSE cfg.val_batches))
        /\ optimizer_steps - pass_start.steps = (IF train THEN Len(Kept) ELSE 0)
        /\ backward_calls - pass_start.backward = (IF train THEN Len(Kept) ELSE 0)

C5_Witness ==
    /\ pc = "return"
    /\ train
    /\ outcomes = <<0, 2, 0>>
    /\ optimizer_steps = 1

\* ------------------------------------------------------------------- C6
\* C6: a pass in which every batch raised NoGradientError takes no optimizer
\* step and returns the undefined average, which its caller stores; the
\* script never stops before the configured number of epochs, and every
\* epoch whose training loss is undefined has its checkpoint, holding the
\* undefined entry, once the epoch's checkpoint step has run.
C6_AllSkippedEpoch ==
    /\ (InPass /\ AllSkipped) => optimizer_steps = pass_start.steps
    /\ (PassReturned /\ AllSkipped) => Recorded = <<0, 0>>
    /\ pc # "done" => ENABLED Next
    /\ pc = "done" => epoch_idx = cfg.num_epochs
    /\ \A e \in 1..SavedEpochs :
          train_loss_history[e] = <<0, 0>> =>
             \E f \in EpochFiles :
                /\ f.content.epoch_idx = e
                /\ f.content.train_loss_history[e] = <<0, 0>>

C6_Witness ==
    /\ pc = "done"
    /\ cfg.num_epochs = 2
    /\ cfg.train_batches = 2
    /\ train_loss_history = << <<0, 0>>, <<0, 0>> >>
    /\ optimizer_steps = 0
    /\ Cardinality(EpochFiles) = 2

\* ------------------------------------------------------------------- C7
\* C7 as amended: in a pass of process_epoch the tick lines written so far
\* are, in order, one for each non-skipped batch whose index is a multiple
\* of log_interval, each tagged with the mode, the epoch index, the batch
\* index, the number of batches and the running average of the losses
\* recorded up to that batch, to six decimals; no tick line is written for
\* a skipped batch or for an index that is not a multiple of log_interval.
C7_TicksForKeptMultiples ==
    InPass =>
        TicksWellFormed({ i \in 0..(batch_idx - 1) :
                            i % cfg.log_interval = 0 /\ outcomes[i + 1] # 0 })

\* C7 as stated: a tick line for every batch index that is a multiple of
\* log_interval, and for no other.
C7_TicksForAllMultiples ==
    InPass =>
        TicksWellFormed({ i \in 0..(batch_idx - 1) : i % cfg.log_interval = 0 })

C7_Witness ==
    /\ pc = "return"
    /\ cfg.log_interval = 2
    /\ outcomes = <<0, 1, 2>>
    /\ Len(Ticks) = 1
    /\ Ticks[1].batch = 2
    /\ Ticks[1].avg = 1500000

\* ------------------------------------------------------------------- C8
\* the operations of the outer loop other than the copy to the best file
Steps == SelectSeq(calls, LAMBDA c : c.op # "copy_best")

StepsPerEpoch == IF cfg.use_validation THEN 5 ELSE 3

Prologue == IF cfg.use_validation THEN 2 ELSE 0

\* the i-th operation of a run of the configured shape
ExpectedStep(i) ==
    IF i <= Prologue
    THEN <<(IF i = 1 THEN "build_validation" ELSE "validate"), 0>>
    ELSE LET k == i - Prologue - 1
             e == (k \div StepsPerEpoch) + 1
             r == k % StepsPerEpoch
         IN  IF cfg.use_validation
             THEN << CASE r = 0 -> "build_training" [] r = 1 -> "train"
                       [] r = 2 -> "validate" [] r = 3 -> "scheduler"
                       [] OTHER -> "save", e >>
             ELSE << CASE r = 0 -> "build_training" [] r = 1 -> "train"
                       [] OTHER -> "save", e >>

\* C8: the operations of the outer loop happen in the fixed order: the
\* baseline validation pass (only with validation) before any training;
\* then for each epoch 1..num_epochs the rebuild of the training dataset,
\* the training pass, with validation the validation pass and the scheduler
\* step on its loss, and the checkpoint; a copy to the best file only right
\* after the checkpoint of the same epoch; and the script ends after exactly
\* num_epochs epochs.
C8_FixedOrder ==
    /\ LET steps == Steps
       IN  \A i \in 1..Len(steps) : <<steps[i].op, steps[i].epoch>> = ExpectedStep(i)
    /\ \A i \in 1..Len(calls) :
          /\ calls[i].op = "copy_best" =>
                /\ cfg.use_validation
                /\ i > 1
                /\ calls[i - 1].op = "save"
                /\ calls[i - 1].epoch = calls[i].epoch
          /\ calls[i].op = "scheduler" =>
                /\ calls[i - 1].op = "validate"
                /\ calls[i - 1].value = calls[i].value
    /\ scheduler_steps = validation_loss_history
    /\ pc = "done" =>
          /\ epoch_idx = cfg.num_epochs
          /\ Len(Steps) = Prologue + cfg.num_epochs * StepsPerEpoch

C8_Witness ==
    /\ pc = "done"
    /\ cfg.use_validation
    /\ cfg.num_epochs = 2
    /\ Len(calls) = 13

\* ------------------------------------------------------------------- C9
\* C9: throughout a validation pass of process_epoch gradient computation is
\* disabled and zero_grad, backward and optimizer.step have not been called
\* since the pass began, so the parameters and the optimizer state are those
\* of its beginning; throughout every training pass gradient computation is
\* enabled.
C9_ValidationLeavesModelAlone ==
    InPass =>
        IF train
        THEN grad_enabled
        ELSE /\ ~grad_enabled
             /\ zero_grad_calls = pass_start.zero_grad
             /\ backward_calls = pass_start.backward
             /\ optimizer_steps = pass_start.steps

C9_Witness ==
    /\ pc = "return"
    /\ train
    /\ epoch_idx = 2
    /\ cfg.use_validation
    /\ cfg.val_batches = 1
    /\ optimizer_steps = 2
    /\ validation_loss_history = << <<2, 1>> >>

\* ------------------------------------------------------------------ C10
IsPrefix(s, t) == Len(s) <= Len(t) /\ \A i \in 1..Len(s) : s[i] = t[i]

HistoryLengths ==
    AtEpochBoundary =>
        /\ Len(train_loss_history) = epoch_idx
        /\ Len(validation_loss_history) =
              (IF cfg.use_validation THEN epoch_idx ELSE 0)

HistoriesGrowByAppending ==
    /\ IsPrefix(train_loss_history, train_loss_history')
    /\ IsPrefix(validation_loss_history, validation_loss_history')
    /\ Len(train_loss_history') <= Len(train_loss_history) + 1
    /\ Len(validation_loss_history') <= Len(validation_loss_history) + 1

\* C10: after k completed epochs train_loss_history has exactly k entries
\* and validation_loss_history has k entries with validation and none
\* without (the loss of epoch 0 is not in it), and every step of the script
\* leaves each history as it was or appends one entry to it.
C10_AppendOnlyHistories ==
    /\ []HistoryLengths
    /\ [][HistoriesGrowByAppending]_vars

C10_Witness ==
    /\ pc = "done"
    /\ cfg.use_validation
    /\ Len(train_loss_history) = 2
    /\ Len(validation_loss_history) = 2
    /\ train_loss_history[1] # train_loss_history[2]

====
